---- MODULE Spec2Model ----
(***************************************************************************)
(* A model of qurro/_metadata_utils.py: the table validator, the "#q2:"    *)
(* directive-line scanner, the metadata loader, the column escaper and the *)
(* GNPS feature-identifier reconciler.                                     *)
(*                                                                         *)
(* Strings whose characters the code inspects (lines, cells, column        *)
(* labels) are sequences of one-character strings.  Floating-point values  *)
(* are integers counting units of 10^-5; a value formatted with "{:.4f}"   *)
(* is an integer counting units of 10^-4.                                  *)
(***************************************************************************)
EXTENDS Integers, Sequences, FiniteSets, TLC

VARIABLES
    \* read_gnps_feature_metadata_file
    ranks_index,              \* feature_ranks_df.index: full feature IDs
    gnps_file,                \* data rows of the GNPS metadata file
    metadata_df,              \* the local DataFrame metadata_df (its rows)
    truncated_id_to_full_id,  \* the dict built at lines 261-275
    fid_pos,                  \* position of the loop of line 262
    rec_pc,                   \* position in the function
    rec_outcome,              \* "running", "returned", "KeyError", "ValueError"
    rec_result,               \* the returned DataFrame (rows: id, LibraryID)
    \* get_q2_comment_lines and read_metadata_file
    source_kind,              \* type of md_file_loc: "StringIO" or "path"
    file_lines,               \* the lines of the source; a line is its fields
    start_pos,                \* lines already consumed when the call starts
    stream_pos,               \* lines consumed so far from the open stream
    line_num,                 \* line_num of iterate_over_file_obj_lines
    q2_lines,                 \* q2_lines
    csv_text,                 \* the lines pd.read_csv got from the source
    md_df,                    \* the local DataFrame metadata_df
    md_pc,                    \* position in read_metadata_file
    md_outcome,               \* "running", "returned", "EmptyID", "EmptyDataError"
    \* ensure_df_headers_unique and escape_columns
    df,                       \* the DataFrame: its index and its columns
    df_at_call,               \* ghost: df as it was when the call was made
    hdr_pc,                   \* "ready", "ensured", "escaped"
    hdr_outcome               \* "ok", "returned", "IndexNotUnique", "ColumnsNotUnique"

rec_vars ==
    <<ranks_index, gnps_file, metadata_df, truncated_id_to_full_id,
      fid_pos, rec_pc, rec_outcome, rec_result>>

md_vars ==
    <<source_kind, file_lines, start_pos, stream_pos, line_num, q2_lines,
      csv_text, md_df, md_pc, md_outcome>>

hdr_vars == <<df, df_at_call, hdr_pc, hdr_outcome>>

vars == <<rec_vars, md_vars, hdr_vars>>

\* what a step of one operation leaves alone: the other operations' state
not_rec == <<md_vars, hdr_vars>>

not_md == <<rec_vars, hdr_vars>>

not_hdr == <<rec_vars, md_vars>>

----------------------------------------------------------------------------
(* Bounds of the model *)

MaxRef == 3
MaxExt == 2
MaxLines == 4
MaxRows == 2
MaxCols == 2

SeqsUpTo(S, n) == UNION {[1..k -> S] : k \in 0..n}

RECURSIVE SelectIdx(_, _, _)
\* the positions j >= from of s with keep[j], ascending
SelectIdx(s, keep, from) ==
    IF from > Len(s) THEN <<>>
    ELSE IF keep[from] THEN <<from>> \o SelectIdx(s, keep, from + 1)
    ELSE SelectIdx(s, keep, from + 1)

IsUnique(s) == \A a, b \in 1..Len(s) : s[a] = s[b] => a = b

----------------------------------------------------------------------------
(* read_gnps_feature_metadata_file and get_truncated_feature_id *)

\* Full feature IDs "<mz>;<rt>" of the model, as <<mz, rt>> in units of 10^-5:
\* "1.00001;2.00001", "1.00002;2.00002", "1.00003;2.00003" (one truncated
\* ID, "1.0000;2.0000"), "5.5;6.6", "1.00008;2.00001".
\* No value ends in the digit 5, so no rounding below is a tie.
FullIds ==
    { <<100001, 200001>>, <<100002, 200002>>, <<100003, 200003>>,
      <<550000, 660000>>, <<100008, 200001>> }

\* ("parent mass", "RTConsensus") pairs of the GNPS file, in units of 10^-5:
\* (1.0, 2.0), (5.5, 6.6), (1.0001, 2.0), (9.9, 9.9)
GnpsValues ==
    { <<100000, 200000>>, <<550000, 660000>>, <<100010, 200000>>,
      <<990000, 990000>> }

\* the bogus ID of line 275; no "<float>;<float>" string equals it
qurro_matching_conflict == <<"qurro_matching_conflict">>

\* "{:.4f}".format(x): x (units of 10^-5, not a tie) rounded to units of 10^-4
Format4f(x) == (x + 5) \div 10

get_truncated_feature_id(full_feature_id) ==
    <<Format4f(full_feature_id[1]), Format4f(full_feature_id[2])>>

EmptyDict == [k \in {} |-> <<>>]

DictSet(d, k, v) == [x \in DOMAIN d \cup {k} |-> IF x = k THEN v ELSE d[x]]

IdleReconcile ==
    /\ ranks_index = <<>>
    /\ gnps_file = <<>>
    /\ metadata_df = <<>>
    /\ truncated_id_to_full_id = <<>>
    /\ fid_pos = 0
    /\ rec_pc = "idle"
    /\ rec_outcome = "idle"
    /\ rec_result = <<>>

InitReconcileCall ==
    /\ ranks_index \in SeqsUpTo(FullIds, MaxRef)
    /\ \E vals \in SeqsUpTo(GnpsValues, MaxExt) :
          gnps_file =
              [n \in 1..Len(vals) |->
                  [parent_mass |-> vals[n][1], RTConsensus |-> vals[n][2],
                   LibraryID |-> n]]
    /\ metadata_df = <<>>
    /\ truncated_id_to_full_id = EmptyDict
    /\ fid_pos = 1
    /\ rec_pc = "read"
    /\ rec_outcome = "running"
    /\ rec_result = <<>>

\* lines 242-254: read the file (default RangeIndex idx) and add the column
\* qurro_trunc_feature_id
RecRead ==
    /\ rec_pc = "read"
    /\ metadata_df' =
          [n \in 1..Len(gnps_file) |->
              [idx |-> n - 1,
               LibraryID |-> gnps_file[n].LibraryID,
               qurro_trunc_feature_id |->
                   <<Format4f(gnps_file[n].parent_mass),
                     Format4f(gnps_file[n].RTConsensus)>>,
               qurro_full_feature_id |-> <<>>]]
    /\ truncated_id_to_full_id' = EmptyDict
    /\ fid_pos' = 1
    /\ rec_pc' = "map"
    /\ UNCHANGED <<ranks_index, gnps_file, rec_outcome, rec_result>>
    /\ UNCHANGED not_rec

\* mutant: a later full ID replaces the recorded one instead of the bogus ID
RecMapStep_LastWins ==
    /\ rec_pc = "map"
    /\ fid_pos <= Len(ranks_index)
    /\ LET fid == ranks_index[fid_pos]
           tfid == get_truncated_feature_id(fid)
       IN  truncated_id_to_full_id' = DictSet(truncated_id_to_full_id, tfid, fid)
    /\ fid_pos' = fid_pos + 1
    /\ UNCHANGED <<ranks_index, gnps_file, metadata_df, rec_pc, rec_outcome,
                   rec_result>>
    /\ UNCHANGED not_rec

\* lines 262-275: one iteration of the loop over feature_ranks_df.index
RecMapStep ==
    /\ rec_pc = "map"
    /\ fid_pos <= Len(ranks_index)
    /\ LET fid == ranks_index[fid_pos]
           tfid == get_truncated_feature_id(fid)
       IN  IF tfid \notin DOMAIN truncated_id_to_full_id
           THEN truncated_id_to_full_id' =
                    DictSet(truncated_id_to_full_id, tfid, fid)
           ELSE truncated_id_to_full_id' =
                    DictSet(truncated_id_to_full_id, tfid,
                            qurro_matching_conflict)
    /\ fid_pos' = fid_pos + 1
    /\ UNCHANGED <<ranks_index, gnps_file, metadata_df, rec_pc, rec_outcome,
                   rec_result>>
    /\ UNCHANGED not_rec

\* lines 277-279: the loop is over; look every truncated ID up in the dict.
\* A truncated ID that is no key of the dict raises KeyError.
RecResolve ==
    /\ rec_pc = "map"
    /\ fid_pos > Len(ranks_index)
    /\ IF \A n \in 1..Len(metadata_df) :
             metadata_df[n].qurro_trunc_feature_id
                 \in DOMAIN truncated_id_to_full_id
       THEN /\ metadata_df' =
                  [n \in 1..Len(metadata_df) |->
                      [metadata_df[n] EXCEPT !.qurro_full_feature_id =
                          truncated_id_to_full_id[
                              metadata_df[n].qurro_trunc_feature_id]]]
            /\ rec_pc' = "drop"
            /\ rec_outcome' = rec_outcome
       ELSE /\ metadata_df' = metadata_df
            /\ rec_pc' = "done"
            /\ rec_outcome' = "KeyError"
    /\ UNCHANGED <<ranks_index, gnps_file, truncated_id_to_full_id, fid_pos,
                   rec_result>>
    /\ UNCHANGED not_rec

\* lines 285-290: drop the rows whose full ID is the bogus ID
RecDrop ==
    /\ rec_pc = "drop"
    /\ LET indices_to_remove ==
               {metadata_df[n].idx : n \in
                   {m \in 1..Len(metadata_df) :
                       metadata_df[m].qurro_full_feature_id
                           = qurro_matching_conflict}}
           keep == [n \in 1..Len(metadata_df) |->
                       metadata_df[n].idx \notin indices_to_remove]
           kept == SelectIdx(metadata_df, keep, 1)
       IN  metadata_df' = [j \in 1..Len(kept) |-> metadata_df[kept[j]]]
    /\ rec_pc' = "index"
    /\ UNCHANGED <<ranks_index, gnps_file, truncated_id_to_full_id, fid_pos,
                   rec_outcome, rec_result>>
    /\ UNCHANGED not_rec

\* the frame returned at line 308: indexed by full ID, column LibraryID only
Reindexed(frame) ==
    [n \in 1..Len(frame) |->
        [id |-> frame[n].qurro_full_feature_id,
         LibraryID |-> frame[n].LibraryID]]

\* mutant: set_index without verify_integrity
RecSetIndex_NoVerify ==
    /\ rec_pc = "index"
    /\ rec_result' = Reindexed(metadata_df)
    /\ rec_outcome' = "returned"
    /\ rec_pc' = "done"
    /\ UNCHANGED <<ranks_index, gnps_file, metadata_df,
                   truncated_id_to_full_id, fid_pos>>
    /\ UNCHANGED not_rec

\* lines 299-308: set_index(verify_integrity=True) raises ValueError on
\* duplicate full IDs and leaves the frame alone; otherwise the frame is
\* re-indexed, filtered to LibraryID and returned
RecSetIndex ==
    /\ rec_pc = "index"
    /\ IF IsUnique([n \in 1..Len(metadata_df) |->
                       metadata_df[n].qurro_full_feature_id])
       THEN /\ rec_result' = Reindexed(metadata_df)
            /\ rec_outcome' = "returned"
       ELSE /\ rec_result' = rec_result
            /\ rec_outcome' = "ValueError"
    /\ rec_pc' = "done"
    /\ UNCHANGED <<ranks_index, gnps_file, metadata_df,
                   truncated_id_to_full_id, fid_pos>>
    /\ UNCHANGED not_rec

NextReconcileCall ==
    \/ RecRead
    \/ RecMapStep
    \/ RecResolve
    \/ RecDrop
    \/ RecSetIndex

----------------------------------------------------------------------------
(* get_q2_comment_lines and read_metadata_file *)

Whitespace == {" "}

\* "#q2:"
Q2Prefix == <<"#", "q", "2", ":">>

\* The lines of the model, each split at its tabs into two fields:
\*   "#q2:t\tc"   "#q2\t"   "s1\tv"   " s1 \t  "   " \tv"   "\t v"
\* Every line holds a tab, so none is a blank line for pd.read_csv, and
\* every line has as many fields as the header.
LineSet ==
    { << <<"#", "q", "2", ":", "t">>, <<"c">> >>,
      << <<"#", "q", "2">>, <<>> >>,
      << <<"s", "1">>, <<"v">> >>,
      << <<" ", "s", "1", " ">>, <<" ", " ">> >>,
      << <<" ">>, <<"v">> >>,
      << <<>>, <<" ", "v">> >> }

RECURSIVE LineText(_)
\* the text of a line: its fields joined by tabs
LineText(fields) ==
    IF Len(fields) = 0 THEN <<>>
    ELSE IF Len(fields) = 1 THEN fields[1]
    ELSE fields[1] \o <<"\t">> \o LineText(Tail(fields))

\* str.startswith
StartsWith(text, prefix) ==
    /\ Len(text) >= Len(prefix)
    /\ SubSeq(text, 1, Len(prefix)) = prefix

RECURSIVE LStrip(_)
LStrip(s) ==
    IF s # <<>> /\ s[1] \in Whitespace THEN LStrip(Tail(s)) ELSE s

RECURSIVE RStrip(_)
RStrip(s) ==
    IF s # <<>> /\ s[Len(s)] \in Whitespace
    THEN RStrip(SubSeq(s, 1, Len(s) - 1))
    ELSE s

\* str.strip
Strip(s) == RStrip(LStrip(s))

\* a cell of a DataFrame of dtype object: a string or NaN
NaN == [na |-> TRUE, s |-> <<>>]

Str(s) == [na |-> FALSE, s |-> s]

IdleMetadata ==
    /\ source_kind = "none"
    /\ file_lines = <<>>
    /\ start_pos = 0
    /\ stream_pos = 0
    /\ line_num = 0
    /\ q2_lines = <<>>
    /\ csv_text = <<>>
    /\ md_df = <<>>
    /\ md_pc = "idle"
    /\ md_outcome = "idle"

\* read_metadata_file is entered (line 150) and get_q2_comment_lines starts
\* iterating (lines 114-115).  A StringIO may have been read or written
\* before the call; a path is opened afresh at line 140.
InitMetadataCall ==
    /\ source_kind \in {"StringIO", "path"}
    /\ file_lines \in SeqsUpTo(LineSet, MaxLines)
    /\ start_pos \in
          IF source_kind = "StringIO" THEN 0..Len(file_lines) ELSE {0}
    /\ stream_pos = start_pos
    /\ line_num = 0
    /\ q2_lines = <<>>
    /\ csv_text = <<>>
    /\ md_df = <<>>
    /\ md_pc = "scan"
    /\ md_outcome = "running"

\* mutant: the first line is checked like the others
ScanLine_ChecksHeader ==
    /\ md_pc = "scan"
    /\ stream_pos < Len(file_lines)
    /\ stream_pos' = stream_pos + 1
    /\ IF StartsWith(LineText(file_lines[stream_pos + 1]), Q2Prefix)
       THEN /\ q2_lines' = Append(q2_lines, line_num)
            /\ line_num' = line_num + 1
            /\ md_pc' = md_pc
       ELSE /\ q2_lines' = q2_lines
            /\ line_num' = line_num
            /\ md_pc' = "scanned"
    /\ UNCHANGED <<source_kind, file_lines, start_pos, csv_text, md_df,
                   md_outcome>>
    /\ UNCHANGED not_md

\* lines 116-127: one iteration of the loop over the lines of the source
ScanLine ==
    /\ md_pc = "scan"
    /\ stream_pos < Len(file_lines)
    /\ stream_pos' = stream_pos + 1
    /\ LET line == LineText(file_lines[stream_pos + 1])
       IN  IF line_num > 0
           THEN IF StartsWith(line, Q2Prefix)
                THEN /\ q2_lines' = Append(q2_lines, line_num)
                     /\ line_num' = line_num + 1
                     /\ md_pc' = md_pc
                ELSE \* break
                     /\ q2_lines' = q2_lines
                     /\ line_num' = line_num
                     /\ md_pc' = "scanned"
           ELSE /\ q2_lines' = q2_lines
                /\ line_num' = line_num + 1
                /\ md_pc' = md_pc
    /\ UNCHANGED <<source_kind, file_lines, start_pos, csv_text, md_df,
                   md_outcome>>
    /\ UNCHANGED not_md

\* lines 116, 128: the source has no more lines; the loop ends
ScanEOF ==
    /\ md_pc = "scan"
    /\ stream_pos = Len(file_lines)
    /\ md_pc' = "scanned"
    /\ UNCHANGED <<source_kind, file_lines, start_pos, stream_pos, line_num,
                   q2_lines, csv_text, md_df, md_outcome>>
    /\ UNCHANGED not_md

\* mutant: no seek(0) before returning
ScanReturn_NoSeek ==
    /\ md_pc = "scanned"
    /\ stream_pos' = IF source_kind = "StringIO" THEN stream_pos ELSE 0
    /\ md_pc' = "parse"
    /\ UNCHANGED <<source_kind, file_lines, start_pos, line_num, q2_lines,
                   csv_text, md_df, md_outcome>>
    /\ UNCHANGED not_md

\* lines 130-141: a StringIO is rewound with seek(0); the handle of a path is
\* closed, and the caller opens the path again at its start
ScanReturn ==
    /\ md_pc = "scanned"
    /\ stream_pos' = 0
    /\ md_pc' = "parse"
    /\ UNCHANGED <<source_kind, file_lines, start_pos, line_num, q2_lines,
                   csv_text, md_df, md_outcome>>
    /\ UNCHANGED not_md

\* na_values=[""], keep_default_na=False, dtype=object: only the empty field
\* is NaN, every other field is kept as the string it is
ParseField(f) == IF f = <<>> THEN NaN ELSE Str(f)

\* the name pandas gives column c (0-based) of the header
ColumnName(f, c) == IF f = <<>> THEN <<"Unnamed: ", c>> ELSE f

\* skiprows: the lines of text whose 0-based number is not in skiprows
CsvRecords(text, skiprows) ==
    LET keep == [n \in 1..Len(text) |->
                    \A i \in 1..Len(skiprows) : skiprows[i] # n - 1]
        kept == SelectIdx(text, keep, 1)
    IN  [j \in 1..Len(kept) |-> text[kept[j]]]

\* lines 151-158: pd.read_csv reads the rest of the source; the first line
\* not skipped is the header, the others are the rows (RangeIndex)
ReadCsv ==
    /\ md_pc = "parse"
    /\ LET text == SubSeq(file_lines, stream_pos + 1, Len(file_lines))
           records == CsvRecords(text, q2_lines)
       IN  /\ csv_text' = text
           /\ stream_pos' = Len(file_lines)
           /\ IF records = <<>>
              THEN /\ md_df' = md_df
                   /\ md_outcome' = "EmptyDataError"
                   /\ md_pc' = "done"
              ELSE /\ md_df' =
                         [index_name |-> <<>>,
                          index |-> [r \in 1..(Len(records) - 1) |-> r - 1],
                          columns |->
                              [c \in 1..Len(records[1]) |->
                                  ColumnName(records[1][c], c - 1)],
                          rows |->
                              [r \in 1..(Len(records) - 1) |->
                                  [c \in 1..Len(records[1]) |->
                                      ParseField(records[r + 1][c])]]]
                   /\ md_outcome' = md_outcome
                   /\ md_pc' = "normalize"
    /\ UNCHANGED <<source_kind, file_lines, start_pos, line_num, q2_lines>>
    /\ UNCHANGED not_md

\* line 164: Series.str.strip leaves NaN alone
StripCell(cell) == IF cell.na THEN cell ELSE Str(Strip(cell.s))

\* mutant: the "" left by stripping is kept
EmptyToNaN_Keep(cell) == cell

\* line 167: where(metadata_df != "", NaN)
EmptyToNaN(cell) == IF ~cell.na /\ cell.s = <<>> THEN NaN ELSE cell

\* lines 161-167: strip every column, then turn every "" into NaN
Normalize ==
    /\ md_pc = "normalize"
    /\ md_df' =
          [md_df EXCEPT !.rows =
              [r \in 1..Len(md_df.rows) |->
                  [c \in 1..Len(md_df.columns) |->
                      EmptyToNaN(StripCell(md_df.rows[r][c]))]]]
    /\ md_pc' = "index"
    /\ UNCHANGED <<source_kind, file_lines, start_pos, stream_pos, line_num,
                   q2_lines, csv_text, md_outcome>>
    /\ UNCHANGED not_md

\* the frame after set_index(columns[0]): the first column is the index
FirstColumnAsIndex(frame) ==
    [index_name |-> frame.columns[1],
     index |-> [r \in 1..Len(frame.rows) |-> frame.rows[r][1]],
     columns |-> Tail(frame.columns),
     rows |-> [r \in 1..Len(frame.rows) |-> Tail(frame.rows[r])]]

\* mutant: set_index(verify_integrity=True)
SetIndex_VerifyIntegrity ==
    /\ md_pc = "index"
    /\ IF \E r \in 1..Len(md_df.rows) : md_df.rows[r][1].na
       THEN /\ md_outcome' = "EmptyID"
            /\ md_df' = md_df
       ELSE IF IsUnique([r \in 1..Len(md_df.rows) |-> md_df.rows[r][1]])
       THEN /\ md_outcome' = "returned"
            /\ md_df' = FirstColumnAsIndex(md_df)
       ELSE /\ md_outcome' = "ValueError"
            /\ md_df' = md_df
    /\ md_pc' = "done"
    /\ UNCHANGED <<source_kind, file_lines, start_pos, stream_pos, line_num,
                   q2_lines, csv_text>>
    /\ UNCHANGED not_md

\* lines 175-190: a NaN in the first column raises
\* ValueError("Empty ID found in metadata file."); otherwise the first column
\* becomes the index and the frame is returned
SetIndex ==
    /\ md_pc = "index"
    /\ IF \E r \in 1..Len(md_df.rows) : md_df.rows[r][1].na
       THEN /\ md_outcome' = "EmptyID"
            /\ md_df' = md_df
       ELSE /\ md_outcome' = "returned"
            /\ md_df' = FirstColumnAsIndex(md_df)
    /\ md_pc' = "done"
    /\ UNCHANGED <<source_kind, file_lines, start_pos, stream_pos, line_num,
                   q2_lines, csv_text>>
    /\ UNCHANGED not_md

NextMetadataCall ==
    \/ ScanLine
    \/ ScanEOF
    \/ ScanReturn
    \/ ReadCsv
    \/ Normalize
    \/ SetIndex

----------------------------------------------------------------------------
(* ensure_df_headers_unique, fix_id and escape_columns *)

\* row identifiers of the model
RowIds == {"r1", "r2"}

\* column labels of the model:
\*   a.b   a:b   [a]   (a)   a'   a"   a\   a|   and the empty label
Labels ==
    { <<"a", ".", "b">>, <<"a", ":", "b">>, <<"[", "a", "]">>,
      <<"(", "a", ")">>, <<"a", "'">>, <<"a", "\"">>, <<"a", "\\">>,
      <<"a", "|">>, <<>> }

IdleHeaders ==
    /\ df = <<>>
    /\ df_at_call = <<>>
    /\ hdr_pc = "idle"
    /\ hdr_outcome = "idle"

\* a DataFrame is about to be passed to ensure_df_headers_unique or to
\* escape_columns; neither reads its cells
InitHeadersCall ==
    /\ \E index \in SeqsUpTo(RowIds, MaxRows), columns \in SeqsUpTo(Labels, MaxCols) :
          df = [index |-> index, columns |-> columns]
    /\ df_at_call = df
    /\ hdr_pc = "ready"
    /\ hdr_outcome = "none"

Range(s) == {s[i] : i \in 1..Len(s)}

\* mutant: the columns are checked before the index
ensure_df_headers_unique_ColumnsFirst(d) ==
    IF Cardinality(Range(d.columns)) # Len(d.columns) THEN "ColumnsNotUnique"
    ELSE IF Cardinality(Range(d.index)) # Len(d.index) THEN "IndexNotUnique"
    ELSE "ok"

\* lines 33-41: the error raised for DataFrame d, or "ok"
ensure_df_headers_unique(d) ==
    IF Cardinality(Range(d.index)) # Len(d.index) THEN "IndexNotUnique"
    ELSE IF Cardinality(Range(d.columns)) # Len(d.columns) THEN "ColumnsNotUnique"
    ELSE "ok"

\* a call of ensure_df_headers_unique(df, df_name)
EnsureDfHeadersUnique ==
    /\ hdr_pc = "ready"
    /\ hdr_outcome' = ensure_df_headers_unique(df)
    /\ hdr_pc' = "ensured"
    /\ UNCHANGED <<df, df_at_call>>
    /\ UNCHANGED not_hdr

RECURSIVE fix_id_BracketsSwapped(_)
\* mutant: "]" and "[" are escaped to each other's replacement
fix_id_BracketsSwapped(fid) ==
    IF fid = <<>> THEN <<>>
    ELSE LET c == fid[1]
             e == IF c = "." THEN ":"
                  ELSE IF c = "]" THEN "("
                  ELSE IF c = "[" THEN ")"
                  ELSE IF c = "'" \/ c = "\"" \/ c = "\\" THEN "|"
                  ELSE c
         IN  <<e>> \o fix_id_BracketsSwapped(Tail(fid))

RECURSIVE fix_id(_)
\* lines 73-85
fix_id(fid) ==
    IF fid = <<>> THEN <<>>
    ELSE LET c == fid[1]
             e == IF c = "." THEN ":"
                  ELSE IF c = "]" THEN ")"
                  ELSE IF c = "[" THEN "("
                  ELSE IF c = "'" \/ c = "\"" \/ c = "\\" THEN "|"
                  ELSE c
         IN  <<e>> \o fix_id(Tail(fid))

\* lines 209-215: a call of escape_columns(df).  The columns are replaced
\* before the check, so they stay replaced when it raises.
EscapeColumns ==
    /\ hdr_pc = "ready"
    /\ LET new_cols == [c \in 1..Len(df.columns) |-> fix_id(df.columns[c])]
           escaped == [df EXCEPT !.columns = new_cols]
       IN  /\ df' = escaped
           /\ hdr_outcome' =
                 IF ensure_df_headers_unique(escaped) = "ok"
                 THEN "returned"
                 ELSE ensure_df_headers_unique(escaped)
    /\ hdr_pc' = "escaped"
    /\ UNCHANGED df_at_call
    /\ UNCHANGED not_hdr

NextHeadersCall ==
    \/ EnsureDfHeadersUnique
    \/ EscapeColumns

----------------------------------------------------------------------------
(* Specifications: one call of one operation on inputs drawn from the sets *)
(* above, the other operations idle                                        *)

InitReconcile == InitReconcileCall /\ IdleMetadata /\ IdleHeaders

SpecReconcile == InitReconcile /\ [][NextReconcileCall]_vars

InitMetadata == InitMetadataCall /\ IdleReconcile /\ IdleHeaders

SpecMetadata == InitMetadata /\ [][NextMetadataCall]_vars

InitHeaders == InitHeadersCall /\ IdleReconcile /\ IdleMetadata

SpecHeaders == InitHeaders /\ [][NextHeadersCall]_vars

Init == InitReconcile \/ InitMetadata \/ InitHeaders

Next == NextReconcileCall \/ NextMetadataCall \/ NextHeadersCall

Spec == Init /\ [][Next]_vars

----------------------------------------------------------------------------
(* Claims about read_gnps_feature_metadata_file *)

\* the truncated ID of row n of the GNPS file
GnpsKey(n) ==
    <<Format4f(gnps_file[n].parent_mass), Format4f(gnps_file[n].RTConsensus)>>

\* the rows of feature_ranks_df whose ID truncates to k
RefRowsOf(k) ==
    {j \in 1..Len(ranks_index) : get_truncated_feature_id(ranks_index[j]) = k}

\* the distinct full IDs of feature_ranks_df that truncate to k
RefIdsOf(k) == {ranks_index[j] : j \in RefRowsOf(k)}

ResultIds == [n \in 1..Len(rec_result) |-> rec_result[n].id]

LoopIsOver ==
    \/ rec_pc = "map" /\ fid_pos > Len(ranks_index)
    \/ rec_pc \in {"drop", "index"}
    \/ rec_pc = "done"

\* every GNPS row has a key of the dict, and no two rows whose key is not
\* conflicted have the same key
C1_Precondition ==
    /\ \A n \in 1..Len(gnps_file) : RefIdsOf(GnpsKey(n)) # {}
    /\ \A a, b \in 1..Len(gnps_file) :
          (a # b /\ Cardinality(RefIdsOf(GnpsKey(a))) = 1)
              => GnpsKey(a) # GnpsKey(b)

\* C1: when every GNPS row's truncated ID is a key of the dict and no two
\* surviving rows resolve to one full ID, the call returns; every GNPS row
\* whose truncated ID is shared by two or more reference IDs is absent from
\* the returned table, every other GNPS row is in it under the one reference
\* ID with its truncated ID, in file order; no returned ID is the bogus
\* conflict ID.
C1_ReconcileKeepsExactlyUnconflictedRows ==
    (rec_pc = "done" /\ C1_Precondition) =>
        /\ rec_outcome = "returned"
        /\ \A n \in 1..Len(gnps_file) :
              /\ Cardinality(RefIdsOf(GnpsKey(n))) >= 2
                    => \A r \in 1..Len(rec_result) : rec_result[r].LibraryID # n
              /\ Cardinality(RefIdsOf(GnpsKey(n))) = 1
                    => \E r \in 1..Len(rec_result) :
                          /\ rec_result[r].LibraryID = n
                          /\ {rec_result[r].id} = RefIdsOf(GnpsKey(n))
        /\ \A r \in 1..Len(rec_result) :
              /\ rec_result[r].id # qurro_matching_conflict
              /\ rec_result[r].LibraryID \in 1..Len(gnps_file)
        /\ \A r, q \in 1..Len(rec_result) :
              r < q => rec_result[r].LibraryID < rec_result[q].LibraryID

\* What the code does instead: a truncated ID counts as conflicted as soon as
\* two ROWS of the reference table have it, the same full ID twice included.
\* With "reference rows" in the place of "reference IDs" the statement of C1
\* holds.
ReconcileKeepsRowsOfOneReferenceRow ==
    (/\ rec_pc = "done"
     /\ \A n \in 1..Len(gnps_file) : RefRowsOf(GnpsKey(n)) # {}
     /\ \A a, b \in 1..Len(gnps_file) :
           (a # b /\ Cardinality(RefRowsOf(GnpsKey(a))) = 1)
               => GnpsKey(a) # GnpsKey(b))
    =>
        /\ rec_outcome = "returned"
        /\ \A n \in 1..Len(gnps_file) :
              /\ Cardinality(RefRowsOf(GnpsKey(n))) >= 2
                    => \A r \in 1..Len(rec_result) : rec_result[r].LibraryID # n
              /\ Cardinality(RefRowsOf(GnpsKey(n))) = 1
                    => \E r \in 1..Len(rec_result) :
                          /\ rec_result[r].LibraryID = n
                          /\ {rec_result[r].id} = RefIdsOf(GnpsKey(n))
        /\ \A r \in 1..Len(rec_result) :
              /\ rec_result[r].id # qurro_matching_conflict
              /\ rec_result[r].LibraryID \in 1..Len(gnps_file)
        /\ \A r, q \in 1..Len(rec_result) :
              r < q => rec_result[r].LibraryID < rec_result[q].LibraryID

\* C2: once the loop over the reference IDs is over, a key of the dict maps
\* to the bogus conflict ID if and only if two or more DISTINCT reference IDs
\* truncate to it, and otherwise maps to the one full ID that truncates to it.
C2_ConflictIffTwoDistinctFullIds ==
    LoopIsOver =>
        \A k \in DOMAIN truncated_id_to_full_id :
            /\ truncated_id_to_full_id[k] = qurro_matching_conflict
                  <=> Cardinality(RefIdsOf(k)) >= 2
            /\ Cardinality(RefIdsOf(k)) < 2
                  => {truncated_id_to_full_id[k]} = RefIdsOf(k)

\* C3: with no reference rows the call returns an empty table whatever the
\* GNPS file holds, and a GNPS row whose truncated ID is no key of the dict
\* never makes the call end in an error other than ValueError.
C3_AbsentKeyDropsRowWithoutError ==
    rec_pc = "done" =>
        /\ Len(ranks_index) = 0
              => (rec_outcome = "returned" /\ rec_result = <<>>)
        /\ rec_outcome \in {"returned", "ValueError"}

RemainingIds ==
    [n \in 1..Len(metadata_df) |-> metadata_df[n].qurro_full_feature_id]

\* C4: when, after the rows with the bogus ID are dropped, two remaining rows
\* have the same full ID, the re-indexing step ends the call with ValueError
\* and no table; and the row IDs of every returned table are pairwise
\* distinct.
C4_DuplicateFullIdsAreFatal ==
    /\ [](rec_outcome = "returned" => IsUnique(ResultIds))
    /\ [][(rec_pc = "index" /\ ~IsUnique(RemainingIds))
            => (rec_pc' = "done" /\ rec_outcome' = "ValueError"
                /\ rec_result' = <<>>)]_vars

\* a call that ended with ValueError on two rows with one unconflicted key
C4_Witness ==
    /\ rec_pc = "done"
    /\ rec_outcome = "ValueError"
    /\ \E a, b \in 1..Len(metadata_df) :
          /\ a # b
          /\ RemainingIds[a] = RemainingIds[b]
          /\ RemainingIds[a] # qurro_matching_conflict

\* the first reference ID, in the order of the loop, that truncates to k
FirstRefIdOf(k) ==
    ranks_index[CHOOSE j \in RefRowsOf(k) : \A i \in RefRowsOf(k) : j <= i]

\* one step takes the entry of every truncated ID k from Unseen to
\* Mapped(the ID the loop is at), from Mapped(id) to Mapped(id) or to
\* Conflicted, from Conflicted to Conflicted, and nowhere else
EntryTransitionsAllowed ==
    /\ \A k \in DOMAIN truncated_id_to_full_id :
          /\ k \in DOMAIN truncated_id_to_full_id'
          /\ \/ truncated_id_to_full_id'[k] = qurro_matching_conflict
             \/ /\ truncated_id_to_full_id[k] # qurro_matching_conflict
                /\ truncated_id_to_full_id'[k] = truncated_id_to_full_id[k]
    /\ \A k \in DOMAIN truncated_id_to_full_id' :
          k \notin DOMAIN truncated_id_to_full_id =>
              /\ rec_pc = "map"
              /\ fid_pos <= Len(ranks_index)
              /\ get_truncated_feature_id(ranks_index[fid_pos]) = k
              /\ truncated_id_to_full_id'[k] = ranks_index[fid_pos]

----------------------------------------------------------------------------
(* Claims about get_q2_comment_lines and read_metadata_file *)

\* the lines the scan iterates over: the source from where it stood
ScannedLines == SubSeq(file_lines, start_pos + 1, Len(file_lines))

\* a line whose first four characters are # q 2 :
IsDirectiveLine(fields) ==
    LET t == LineText(fields)
    IN  Len(t) >= 4 /\ t[1] = "#" /\ t[2] = "q" /\ t[3] = "2" /\ t[4] = ":"

\* k is the length of the maximal run of directive lines that begins at
\* line 1 (0-based) of the scanned lines
IsLeadingRun(k) ==
    /\ k + 1 <= Len(ScannedLines) \/ k = 0
    /\ \A i \in 1..k : IsDirectiveLine(ScannedLines[i + 1])
    /\ k + 2 <= Len(ScannedLines) => ~IsDirectiveLine(ScannedLines[k + 2])

ScanIsOver == md_pc \notin {"idle", "scan"}

\* C7: the scan returns exactly <<1, ..., k>>, k the length of the maximal
\* run of "#q2:" lines that begins at line 1: line 0 is never in it, and no
\* "#q2:" line after the first other line is.
C7_ScanReturnsLeadingRun ==
    ScanIsOver =>
        /\ IsLeadingRun(Len(q2_lines))
        /\ \A i \in 1..Len(q2_lines) : q2_lines[i] = i

\* a scan of: a "#q2:" header, a directive line, a data line, and a "#q2:"
\* line after the data line
C7_Witness ==
    /\ ScanIsOver
    /\ q2_lines = <<1>>
    /\ Len(ScannedLines) = 4
    /\ IsDirectiveLine(ScannedLines[1])
    /\ ~IsDirectiveLine(ScannedLines[3])
    /\ IsDirectiveLine(ScannedLines[4])

\* C8: when the scan of a StringIO returns, the stream stands at its start,
\* however many lines the scan read; the read that follows gets every line
\* of the source, the header line first.
C8_ScanRewindsStream ==
    source_kind = "StringIO" =>
        /\ md_pc = "parse" => stream_pos = 0
        /\ md_pc \in {"normalize", "index", "done"} => csv_text = file_lines

\* the read after a scan that found a directive line and stopped at a data
\* line (not at the end of input), on a StringIO which the call found
\* already read past its first line
C8_Witness ==
    /\ source_kind = "StringIO"
    /\ md_pc = "normalize"
    /\ csv_text = file_lines
    /\ start_pos > 0
    /\ q2_lines # <<>>
    /\ start_pos + line_num < Len(file_lines)

\* the rows pd.read_csv parsed, as the fields of their lines
ParsedRows == Tail(CsvRecords(csv_text, q2_lines))

AllWhitespace(s) == \A i \in 1..Len(s) : s[i] \in Whitespace

\* a non-empty string with no whitespace at either end
IsTrimmed(s) ==
    s # <<>> /\ s[1] \notin Whitespace /\ s[Len(s)] \notin Whitespace

\* t is f without the whitespace at its two ends
IsStrippedFrom(t, f) ==
    \E i, j \in 1..Len(f) :
        /\ t = SubSeq(f, i, j)
        /\ IsTrimmed(t)
        /\ AllWhitespace(SubSeq(f, 1, i - 1))
        /\ AllWhitespace(SubSeq(f, j + 1, Len(f)))

Parsed == md_pc = "done" /\ md_outcome # "EmptyDataError"

\* C5: the call fails with ValueError("Empty ID found in metadata file.") if
\* and only if the first field of some parsed row is empty or only
\* whitespace; in a returned table no row ID is missing, every row ID and
\* every cell that is not missing is a non-empty string without whitespace
\* at its ends, and a cell whose field is empty or only whitespace is
\* missing.
C5_EmptyIdRaisesAndCellsAreNormalized ==
    Parsed =>
        /\ md_outcome \in {"EmptyID", "returned"}
        /\ md_outcome = "EmptyID"
              <=> \E r \in 1..Len(ParsedRows) : AllWhitespace(ParsedRows[r][1])
        /\ md_outcome = "returned" =>
              /\ Len(md_df.index) = Len(ParsedRows)
              /\ Len(md_df.rows) = Len(ParsedRows)
              /\ \A r \in 1..Len(ParsedRows) :
                    /\ ~md_df.index[r].na
                    /\ IsTrimmed(md_df.index[r].s)
                    /\ Len(md_df.rows[r]) = Len(ParsedRows[r]) - 1
                    /\ \A c \in 1..Len(md_df.rows[r]) :
                          IF AllWhitespace(ParsedRows[r][c + 1])
                          THEN md_df.rows[r][c] = NaN
                          ELSE /\ ~md_df.rows[r][c].na
                               /\ IsTrimmed(md_df.rows[r][c].s)

\* a returned table with a missing cell whose field was only whitespace
C5_Witness ==
    /\ Parsed
    /\ md_outcome = "returned"
    /\ \E r \in 1..Len(ParsedRows) :
          /\ ParsedRows[r][2] # <<>>
          /\ AllWhitespace(ParsedRows[r][2])
          /\ md_df.rows[r][1] = NaN

\* a call that raised on a row ID that was only whitespace
C5_WitnessEmptyId ==
    /\ Parsed
    /\ md_outcome = "EmptyID"
    /\ \E r \in 1..Len(ParsedRows) :
          ParsedRows[r][1] # <<>> /\ AllWhitespace(ParsedRows[r][1])

----------------------------------------------------------------------------
(* Claims about ensure_df_headers_unique and escape_columns *)

\* the replacement of one character
Escaped(c) ==
    CASE c = "." -> ":"
      [] c = "]" -> ")"
      [] c = "[" -> "("
      [] c \in {"'", "\"", "\\"} -> "|"
      [] OTHER -> c

\* new is old escaped character by character
IsEscapeOf(new, old) ==
    /\ Len(new) = Len(old)
    /\ \A i \in 1..Len(old) : new[i] = Escaped(old[i])

\* two columns of the frame passed have the same escaped label
EscapedLabelsCollide ==
    \E a, b \in 1..Len(df_at_call.columns) :
        /\ a # b
        /\ \A i \in 1..Len(df_at_call.columns[a]) :
              /\ i <= Len(df_at_call.columns[b])
              /\ Escaped(df_at_call.columns[a][i])
                    = Escaped(df_at_call.columns[b][i])
        /\ Len(df_at_call.columns[a]) = Len(df_at_call.columns[b])

\* C9: escape_columns replaces every column label by its escape, character
\* by character and in the same column order; it raises ValueError exactly
\* when the row IDs are not unique or two labels have the same escape, and
\* when it returns the labels are pairwise distinct.
C9_EscapeColumnsEscapesAndChecks ==
    hdr_pc = "escaped" =>
        /\ df.index = df_at_call.index
        /\ Len(df.columns) = Len(df_at_call.columns)
        /\ \A c \in 1..Len(df.columns) :
              IsEscapeOf(df.columns[c], df_at_call.columns[c])
        /\ hdr_outcome \in {"returned", "IndexNotUnique", "ColumnsNotUnique"}
        /\ hdr_outcome # "returned"
              <=> (~IsUnique(df_at_call.index) \/ EscapedLabelsCollide)
        /\ hdr_outcome = "returned" => IsUnique(df.columns)

\* a call that raised because the distinct labels a.b and a:b both became a:b
C9_Witness ==
    /\ hdr_pc = "escaped"
    /\ hdr_outcome = "ColumnsNotUnique"
    /\ IsUnique(df_at_call.columns)
    /\ \E a, b \in 1..Len(df.columns) :
          /\ df_at_call.columns[a] = <<"a", ".", "b">>
          /\ df_at_call.columns[b] = <<"a", ":", "b">>
          /\ df.columns[a] = df.columns[b]

\* C10: ensure_df_headers_unique raises nothing if and only if the row IDs
\* are pairwise distinct and the column labels are pairwise distinct; when
\* neither are, the error is the one about the index, and the one about the
\* columns is raised only when the row IDs are unique; the frame is left as
\* it was.
C10_EnsureUniqueIffBothUnique ==
    hdr_pc = "ensured" =>
        /\ hdr_outcome \in {"ok", "IndexNotUnique", "ColumnsNotUnique"}
        /\ hdr_outcome = "ok" <=> (IsUnique(df.index) /\ IsUnique(df.columns))
        /\ hdr_outcome = "IndexNotUnique" <=> ~IsUnique(df.index)
        /\ hdr_outcome = "ColumnsNotUnique"
              <=> (IsUnique(df.index) /\ ~IsUnique(df.columns))
        /\ df = df_at_call

\* a call on a frame with a repeated row ID and a repeated column label
C10_Witness ==
    /\ hdr_pc = "ensured"
    /\ ~IsUnique(df.index)
    /\ ~IsUnique(df.columns)
    /\ hdr_outcome = "IndexNotUnique"

====
